---------------------------- MODULE Spec2Model ----------------------------
(***************************************************************************)
(* v3discovery: rendezvous cluster discovery over a shared key-value       *)
(* registry (src/unnamed/part_000).                                        *)
(*                                                                         *)
(* Strings are sequences of one-character strings, so that TrimSpace,      *)
(* IndexRune, Join and ParseInt are computed and not assumed.  Registry    *)
(* keys are sequences of path segments (path.Join of the segments).        *)
(***************************************************************************)
EXTENDS Integers, Sequences, FiniteSets, TLC

(***************************************************************************)
(* Bounds of the model.                                                    *)
(***************************************************************************)
\* number of processes calling GetCluster / JoinCluster
NumNodes == 3
\* the retry ceiling the package variable nRetries is set to (math.MaxUint32
\* in the build, lowered by tests)
MaxRetries == 1
\* transient registry failures injected over one run
MaxFaults == 2
\* watch streams that terminate early over one run
MaxCloses == 1
\* longest ledger built in the ledger specification
MaxAdds == 3
\* largest createRevision offered to add() in the ledger specification
MaxRev == 2
\* the retry ceiling nRetries is set to in the backoff specification
MaxBackoffs == 10
\* failures of retried operations over one run of the backoff specification
MaxBackoffFaults == 12

(***************************************************************************)
(* Program constants.                                                      *)
(***************************************************************************)
maxExponentialRetries == 8

\* the registry's revision before any member registers (the size key's write)
InitRevision == 1

Nodes == 1..NumNodes

ErrNone == "nil"
ErrInvalidURL == "discovery: invalid peer URL"
ErrBadSizeKey == "discovery: size key is bad"
ErrSizeNotFound == "discovery: size key not found"
ErrFullCluster == "discovery: cluster is full"
ErrTooManyRetries == "discovery: too many retries"
\* the error of a failed registry RPC (context deadline, unavailable, ...)
ErrTransient == "rpc error"

(***************************************************************************)
(* String helpers (Go's strings, strconv and path packages).               *)
(***************************************************************************)
IsSpace(c) == c = " "

RECURSIVE TrimLeft(_)
TrimLeft(s) ==
    IF s # <<>> /\ IsSpace(Head(s)) THEN TrimLeft(Tail(s)) ELSE s

RECURSIVE TrimRight(_)
TrimRight(s) ==
    IF s # <<>> /\ IsSpace(s[Len(s)]) THEN TrimRight(SubSeq(s, 1, Len(s) - 1)) ELSE s

\* strings.TrimSpace
TrimSpace(s) == TrimRight(TrimLeft(s))

\* strings.IndexRune(s, c): 0-based index of the first c, or -1
IndexRune(s, c) ==
    IF \E i \in 1..Len(s) : s[i] = c
    THEN (CHOOSE i \in 1..Len(s) : s[i] = c /\ \A j \in 1..(i - 1) : s[j] # c) - 1
    ELSE -1

\* strings.HasPrefix, on paths of segments
HasPrefix(s, p) == Len(s) >= Len(p) /\ SubSeq(s, 1, Len(p)) = p

\* strings.Join(elems, ",")
RECURSIVE Join(_)
Join(elems) ==
    IF elems = <<>> THEN <<>>
    ELSE IF Len(elems) = 1 THEN elems[1]
    ELSE elems[1] \o <<",">> \o Join(Tail(elems))

\* strings.Split(s, ",")
RECURSIVE Split(_)
Split(s) ==
    LET i == IndexRune(s, ",")
    IN  IF i = -1 THEN <<s>>
        ELSE <<SubSeq(s, 1, i)>> \o Split(SubSeq(s, i + 2, Len(s)))

Digits == <<"0", "1", "2", "3", "4", "5", "6", "7", "8", "9">>
HexDigits == Digits \o <<"a", "b", "c", "d", "e", "f">>

DigitVal(c) == (CHOOSE i \in 1..10 : Digits[i] = c) - 1
IsDigit(c) == \E i \in 1..10 : Digits[i] = c

RECURSIVE ParseDigits(_, _)
ParseDigits(s, acc) ==
    IF s = <<>> THEN acc ELSE ParseDigits(Tail(s), acc * 10 + DigitVal(Head(s)))

\* strconv.ParseInt(s, 10, 0): [ok |-> no error, val |-> the integer]
ParseInt(s) ==
    LET neg  == s # <<>> /\ Head(s) = "-"
        body == IF s # <<>> /\ Head(s) \in {"-", "+"} THEN Tail(s) ELSE s
    IN  IF body = <<>> \/ \E i \in 1..Len(body) : ~IsDigit(body[i])
        THEN [ok |-> FALSE, val |-> 0]
        ELSE [ok |-> TRUE,
              val |-> IF neg THEN 0 - ParseDigits(body, 0) ELSE ParseDigits(body, 0)]

\* types.ID.String(): strconv.FormatUint(uint64(id), 16), for the ids below 16
\* (one hex digit)
IDString(id) == HexDigits[id + 1]

(***************************************************************************)
(* Key-space schema.                                                       *)
(***************************************************************************)
discoveryPrefix == <<"_etcd", "registry">>

geClusterKeyPrefix(cluster) == discoveryPrefix \o <<cluster>>

geClusterSizeKey(cluster) == geClusterKeyPrefix(cluster) \o <<"_config", "size">>

getMemberKeyPrefix(clusterToken) == geClusterKeyPrefix(clusterToken) \o <<"members">>

getMemberKey(cluster, memberId) == getMemberKeyPrefix(cluster) \o <<memberId>>

(***************************************************************************)
(* Membership ledger (clusterInfo).  A ledger is the sequence              *)
(* cls.members of records [peerRegKey, peerURLsMap, createRev].            *)
(***************************************************************************)
ClsLen(members) == Len(members)

\* a comparison that also holds between equal revisions
LessOrEqual(a, b) == a.createRev <= b.createRev

\* clusterInfo.Less on two records
Less(a, b) == a.createRev < b.createRev

\* clusterInfo.Swap
Swap(members, i, j) ==
    [members EXCEPT ![i] = members[j], ![j] = members[i]]

\* sort.Sort on at most 12 elements is an insertion sort:
\*   for i := a+1; i < b; i++ { for j := i; j > a && Less(j, j-1); j-- { Swap(j, j-1) } }
RECURSIVE SiftLeft(_, _)
SiftLeft(members, j) ==
    IF j > 1 /\ Less(members[j], members[j - 1])
    THEN SiftLeft(Swap(members, j, j - 1), j - 1)
    ELSE members

RECURSIVE InsertionSortFrom(_, _)
InsertionSortFrom(members, i) ==
    IF i > Len(members) THEN members
    ELSE InsertionSortFrom(SiftLeft(members, i), i + 1)

NoSort(members) == members

SortMembers(members) == InsertionSortFrom(members, 2)

\* a ledger that never finds a key
existNever(members, mKey) == FALSE

\* clusterInfo.exist
exist(members, mKey) == \E i \in 1..Len(members) : members[i].peerRegKey = mKey

\* clusterInfo.add: [err |-> error message or ErrNone, members |-> the ledger after]
add(clusterToken, members, memberKey, memberValue, rev) ==
    IF ~HasPrefix(memberKey, getMemberKeyPrefix(clusterToken))
    THEN [err |-> "invalid peer registry key", members |-> members]
    ELSE IF IndexRune(memberValue, "=") = -1
    THEN [err |-> "invalid peer info returned from discovery service", members |-> members]
    ELSE IF exist(members, memberKey)
    THEN [err |-> "found duplicate peer from discovery service", members |-> members]
    ELSE [err |-> ErrNone,
          members |-> SortMembers(Append(members,
                         [peerRegKey |-> memberKey,
                          peerURLsMap |-> memberValue,
                          createRev |-> rev]))]

\* clusterInfo.getPeerURLs
getPeerURLs(members) == [i \in 1..Len(members) |-> members[i].peerURLsMap]

\* types.NewURLsMap succeeds: every comma-separated entry is name=url with a
\* well-formed url.  The url "h" stands for a well-formed peer URL.
NewURLsMapOK(us) ==
    us = <<>> \/
    \A i \in 1..Len(Split(us)) :
        LET e == Split(us)[i]
            k == IndexRune(e, "=")
        IN  k # -1 /\ SubSeq(e, k + 2, Len(e)) = <<"h">>

CapNone(peerURLs, clusterSize) == peerURLs

\* peerURLs[:clusterSize] when there are more than clusterSize
CapPeerURLs(peerURLs, clusterSize) ==
    IF Len(peerURLs) > clusterSize THEN SubSeq(peerURLs, 1, clusterSize) ELSE peerURLs

\* clusterInfo.getInitClusterStr: [cs |-> the string, err |-> ErrNone or ErrInvalidURL]
getInitClusterStr(members, clusterSize) ==
    LET us == Join(CapPeerURLs(getPeerURLs(members), clusterSize))
    IN  [cs |-> us, err |-> IF NewURLsMapOK(us) THEN ErrNone ELSE ErrInvalidURL]

\* the scan with its bound off by one: idx >= clusterSize
RECURSIVE FindSelfOffByOne(_, _, _, _)
FindSelfOffByOne(members, memberSelfId, clusterSize, idx) ==
    IF idx + 1 > Len(members) THEN ErrNone
    ELSE IF members[idx + 1].peerRegKey = memberSelfId THEN ErrNone
    ELSE IF idx >= clusterSize THEN ErrFullCluster
    ELSE FindSelfOffByOne(members, memberSelfId, clusterSize, idx + 1)

\* the scan counting the records instead of looking at the first clusterSize
FindSelfByLength(members, memberSelfId, clusterSize, idx) ==
    IF Len(members) >= clusterSize /\ ~\E i \in 1..Len(members) : members[i].peerRegKey = memberSelfId
    THEN ErrFullCluster
    ELSE ErrNone

\* the scan of checkCluster for the caller's own position:
\*   idx := 0; for m in members { if m.key == self {break};
\*                                if idx >= clusterSize-1 {return ErrFullCluster}; idx++ }
RECURSIVE FindSelf(_, _, _, _)
FindSelf(members, memberSelfId, clusterSize, idx) ==
    IF idx + 1 > Len(members) THEN ErrNone
    ELSE IF members[idx + 1].peerRegKey = memberSelfId THEN ErrNone
    ELSE IF idx >= clusterSize - 1 THEN ErrFullCluster
    ELSE FindSelf(members, memberSelfId, clusterSize, idx + 1)


(***************************************************************************)
(* State.                                                                  *)
(*   nRetries: the package variable of that name.                          *)
(*   Registry: sizeKvs (the Kvs of a read of the size key), revision (the  *)
(*   store's revision) and events (every write under the member prefix,    *)
(*   in revision order).                                                   *)
(*   Per call n: kind, config and the discovery struct's fields; pc is the *)
(*   call's position, sleep the seconds of the backoff sleep the call is   *)
(*   in (0 when in none), cls/clusterSize/rev the locals of                *)
(*   getCluster/joinCluster, wnext the number of registry events the open  *)
(*   watch has passed, result the (cs, rerr) pair returned.                *)
(*   History of the run: puts and watches tell whether a call has sent a   *)
(*   Put RPC and has opened a watch, checkErr is the error of the call's   *)
(*   last completed checkCluster, faults counts the injected transient     *)
(*   failures and closes the watch streams of a call that ended early.     *)
(*   ledger, ledgerOut: the ledger specification's clusterInfo and the     *)
(*   result of the last operation applied to it.                           *)
(***************************************************************************)
VARIABLES nRetries, sizeKvs, revision, events,
          kind, config, pc, retries, sleep, cls, clusterSize, rev, wnext, result,
          puts, watches, checkErr, faults, closes,
          ledger, ledgerOut

registry == <<nRetries, sizeKvs, revision, events>>
locals == <<kind, config, pc, retries, sleep, cls, clusterSize, rev, wnext, result>>
history == <<puts, watches, checkErr, faults, closes>>
pure == <<ledger, ledgerOut>>
vars == <<registry, locals, history, pure>>

clusterToken == "tok"

Names == <<"a", "b", "c", "d", "e", "f", "g", "i">>

\* the config strings a call may be given: "name=url", the same padded with
\* blanks, one without '=' and one whose url is malformed
Payloads(n) ==
    LET nm == Names[n]
    IN  IF n % 3 = 1 THEN {<<nm, "=", "h">>}
        ELSE IF n % 3 = 2 THEN {<<" ", nm, "=", "h", " ">>}
        ELSE {<<nm, "=", "h">>, <<nm>>, <<nm, "=", "x">>}

\* who joins and who observes: the first j calls are JoinCluster calls, the
\* others GetCluster calls
Kinds == {[n \in Nodes |-> IF n <= j THEN "join" ELSE "get"] : j \in 1..NumNodes}

\* the values the size key may hold; <<>> is "no such key"
SizeKvsChoices ==
    {<<>>, <<[Value |-> <<"x">>]>>, <<[Value |-> <<"0">>]>>, <<[Value |-> <<"-", "1">>]>>,
     <<[Value |-> <<"2">>]>>, <<[Value |-> <<"3">>]>>}

\* GetCluster builds its discovery with id 0, JoinCluster with the caller's id
memberId(n) == IF kind[n] = "get" THEN 0 ELSE n

memberSelfKey(n) == getMemberKey(clusterToken, IDString(memberId(n)))

NoResult == [cs |-> <<>>, err |-> "pending"]

(***************************************************************************)
(* The registry (clientv3 Get, Put and Watch).                             *)
(***************************************************************************)
\* indices of the writes of a key
WritesOf(key) == {i \in 1..Len(events) : events[i].Key = key}

\* the key-value pairs under a prefix, in key order (the member ids in use
\* are 0..NumNodes)
RECURSIVE RangeFrom(_, _)
RangeFrom(prefix, id) ==
    IF id > NumNodes THEN <<>>
    ELSE LET key == prefix \o <<IDString(id)>>
             ws  == WritesOf(key)
         IN  (IF ws = {} THEN <<>>
              ELSE <<events[CHOOSE i \in ws : \A j \in ws : j <= i]>>)
             \o RangeFrom(prefix, id + 1)

Range(prefix) == RangeFrom(prefix, 0)

\* the event a Put of (key, value) produces at revision r
PutEvent(key, value, r) ==
    LET ws == WritesOf(key)
    IN  [Key |-> key, Value |-> value, ModRevision |-> r,
         CreateRevision |-> IF ws = {} THEN r
                            ELSE events[CHOOSE i \in ws : TRUE].CreateRevision]

\* a watch that also skips the events of revision fromRev
WatchStartSkipsOne(fromRev) ==
    Cardinality({i \in 1..Len(events) : events[i].ModRevision <= fromRev})

\* the number of events a watch WithRev(fromRev) skips
WatchStart(fromRev) ==
    Cardinality({i \in 1..Len(events) : events[i].ModRevision < fromRev})

(***************************************************************************)
(* Retry / backoff.                                                        *)
(***************************************************************************)
RECURSIVE Pow2(_)
Pow2(k) == IF k = 0 THEN 1 ELSE 2 * Pow2(k - 1)

\* the backoff computed before the counter is incremented: the first is 1 s
logAndBackoffFromOne(r) ==
    [retries |-> r + 1,
     sleep |-> Pow2(IF r > maxExponentialRetries THEN maxExponentialRetries ELSE r)]

\* the backoff without its ceiling: 0x1 << d.retries
logAndBackoffNoCeiling(r) == [retries |-> r + 1, sleep |-> Pow2(r + 1)]

\* logAndBackoffForRetry: [retries |-> d.retries after, sleep |-> seconds slept]
logAndBackoffForRetry(r) ==
    LET r1 == r + 1
        capped == IF r1 > maxExponentialRetries THEN maxExponentialRetries ELSE r1
    IN  [retries |-> r1, sleep |-> Pow2(capped)]

FaultsLeft == faults < MaxFaults

RECURSIVE SumUpTo(_, _)
SumUpTo(f, k) == IF k = 0 THEN 0 ELSE f[k] + SumUpTo(f, k - 1)

ClosesLeft == SumUpTo(closes, NumNodes) < MaxCloses

\* the ceiling test written d.retries <= nRetries
RetryOrGiveUpOneMore(n) ==
    /\ faults' = faults + 1
    /\ IF retries[n] <= nRetries
       THEN /\ retries' = [retries EXCEPT ![n] = logAndBackoffForRetry(retries[n]).retries]
            /\ sleep' = [sleep EXCEPT ![n] = logAndBackoffForRetry(retries[n]).sleep]
            /\ UNCHANGED <<pc, result>>
       ELSE /\ pc' = [pc EXCEPT ![n] = "done"]
            /\ result' = [result EXCEPT ![n] = [cs |-> <<>>, err |-> ErrTooManyRetries]]
            /\ sleep' = [sleep EXCEPT ![n] = 0]
            /\ UNCHANGED retries

\* a transient failure of a retried operation of call n: checkClusterRetry and
\* registerSelfRetry
RetryOrGiveUp(n) ==
    /\ faults' = faults + 1
    /\ IF retries[n] < nRetries
       THEN /\ retries' = [retries EXCEPT ![n] = logAndBackoffForRetry(retries[n]).retries]
            /\ sleep' = [sleep EXCEPT ![n] = logAndBackoffForRetry(retries[n]).sleep]
            /\ UNCHANGED <<pc, result>>
       ELSE /\ pc' = [pc EXCEPT ![n] = "done"]
            /\ result' = [result EXCEPT ![n] = [cs |-> <<>>, err |-> ErrTooManyRetries]]
            /\ sleep' = [sleep EXCEPT ![n] = 0]
            /\ UNCHANGED retries

(***************************************************************************)
(* Registry reads.                                                         *)
(***************************************************************************)
\* getClusterSize accepting a size of 0: clusterSize < 0
getClusterSizeZeroOK(kvs) ==
    IF Len(kvs) = 0 THEN [size |-> 0, err |-> ErrSizeNotFound]
    ELSE LET p == ParseInt(kvs[1].Value)
         IN  IF ~p.ok \/ p.val < 0 THEN [size |-> 0, err |-> ErrBadSizeKey]
             ELSE [size |-> p.val, err |-> ErrNone]

\* getClusterSize on a reply: [size, err]
getClusterSize(kvs) ==
    IF Len(kvs) = 0 THEN [size |-> 0, err |-> ErrSizeNotFound]
    ELSE LET p == ParseInt(kvs[1].Value)
         IN  IF ~p.ok \/ p.val <= 0 THEN [size |-> 0, err |-> ErrBadSizeKey]
             ELSE [size |-> p.val, err |-> ErrNone]

\* feeding a sequence of key-value pairs to add, giving up at the first
\* rejected one
RECURSIVE AddAllAborts(_, _)
AddAllAborts(members, kvs) ==
    IF kvs = <<>> THEN members
    ELSE IF add(clusterToken, members, TrimSpace(Head(kvs).Key),
                TrimSpace(Head(kvs).Value), Head(kvs).CreateRevision).err # ErrNone
    THEN members
    ELSE AddAllAborts(add(clusterToken, members, TrimSpace(Head(kvs).Key),
                          TrimSpace(Head(kvs).Value), Head(kvs).CreateRevision).members,
                      Tail(kvs))

\* feeding a sequence of key-value pairs to add, skipping the rejected ones
RECURSIVE AddAll(_, _)
AddAll(members, kvs) ==
    IF kvs = <<>> THEN members
    ELSE AddAll(add(clusterToken, members, TrimSpace(Head(kvs).Key),
                    TrimSpace(Head(kvs).Value), Head(kvs).CreateRevision).members,
                Tail(kvs))

\* getClusterMembers on a reply
getClusterMembers(kvs) == AddAll(<<>>, kvs)


(***************************************************************************)
(* Initial state: every call has built its discovery (retries 0) and is    *)
(* about to run its first checkCluster; no member is registered.           *)
(***************************************************************************)
CallInit ==
    /\ kind \in Kinds
    /\ config \in {c \in [Nodes -> {<<>>} \cup UNION {Payloads(n) : n \in Nodes}] :
                      \A n \in Nodes : IF kind[n] = "join" THEN c[n] \in Payloads(n)
                                                           ELSE c[n] = <<>>}
    /\ pc = [n \in Nodes |-> "checkCluster"]
    /\ retries = [n \in Nodes |-> 0]
    /\ sleep = [n \in Nodes |-> 0]
    /\ cls = [n \in Nodes |-> <<>>]
    /\ clusterSize = [n \in Nodes |-> 0]
    /\ rev = [n \in Nodes |-> 0]
    /\ wnext = [n \in Nodes |-> 0]
    /\ result = [n \in Nodes |-> NoResult]
    /\ puts = [n \in Nodes |-> FALSE]
    /\ watches = [n \in Nodes |-> FALSE]
    /\ checkErr = [n \in Nodes |-> "none"]
    /\ faults = 0
    /\ closes = [n \in Nodes |-> 0]

Init ==
    /\ nRetries = MaxRetries
    /\ sizeKvs \in SizeKvsChoices
    /\ revision = InitRevision
    /\ events = <<>>
    /\ CallInit
    /\ ledger = <<>>
    /\ ledgerOut = [op |-> "new"]

InCheck(n) == pc[n] \in {"checkCluster", "checkCluster2"}

(***************************************************************************)
(* checkCluster, one attempt.                                              *)
(***************************************************************************)
\* the size key is absent or bad: the error is returned at once
CheckClusterFatal(n) ==
    /\ InCheck(n)
    /\ getClusterSize(sizeKvs).err # ErrNone
    /\ pc' = [pc EXCEPT ![n] = "done"]
    /\ result' = [result EXCEPT ![n] = [cs |-> <<>>, err |-> getClusterSize(sizeKvs).err]]
    /\ checkErr' = [checkErr EXCEPT ![n] = getClusterSize(sizeKvs).err]
    /\ sleep' = [sleep EXCEPT ![n] = 0]
    /\ UNCHANGED <<registry, kind, config, retries, cls, clusterSize, rev, wnext,
                   puts, watches, faults, closes, pure>>

\* the read of the size key, or the read of the members after a good size,
\* fails transiently
CheckClusterFail(n) ==
    /\ InCheck(n)
    /\ FaultsLeft
    /\ RetryOrGiveUp(n)
    /\ checkErr' = [checkErr EXCEPT ![n] =
                       IF retries[n] < nRetries THEN @ ELSE ErrTooManyRetries]
    /\ UNCHANGED <<registry, kind, config, cls, clusterSize, rev, wnext,
                   puts, watches, closes, pure>>

\* getCluster going through joinCluster's steps
FirstCheckOfAny(n) == pc[n] = "checkCluster"

\* joinCluster's first checkCluster: only its error is looked at, and
\* registerSelf follows
FirstCheckOfJoin(n) == kind[n] = "join" /\ pc[n] = "checkCluster"

\* getCluster returning ErrFullCluster like joinCluster
RendersOnFullNever(n, err) == FALSE

\* getCluster returns the rendered list, not the error, on ErrFullCluster
RendersOnFull(n, err) == kind[n] = "get" /\ err = ErrFullCluster

\* what getCluster / joinCluster do with a checkCluster that read size and
\* members: members is the ledger read, size the size, r the header revision.
\* joinCluster keeps only the error of its first checkCluster.
AfterCheck(n, members, size, r, err) ==
    /\ retries' = [retries EXCEPT ![n] = 0]
    /\ checkErr' = [checkErr EXCEPT ![n] = err]
    /\ IF FirstCheckOfJoin(n)
       THEN /\ IF err # ErrNone
               THEN /\ pc' = [pc EXCEPT ![n] = "done"]
                    /\ result' = [result EXCEPT ![n] = [cs |-> <<>>, err |-> err]]
               ELSE /\ pc' = [pc EXCEPT ![n] = "registerSelf"]
                    /\ UNCHANGED result
            /\ UNCHANGED <<cls, clusterSize, rev, wnext, watches>>
       ELSE /\ cls' = [cls EXCEPT ![n] = members]
            /\ clusterSize' = [clusterSize EXCEPT ![n] = size]
            /\ IF err # ErrNone
               THEN /\ pc' = [pc EXCEPT ![n] = "done"]
                    /\ result' = [result EXCEPT ![n] =
                           IF RendersOnFull(n, err) THEN getInitClusterStr(members, size)
                           ELSE [cs |-> <<>>, err |-> err]]
                    /\ UNCHANGED <<rev, wnext, watches>>
               ELSE IF ClsLen(members) < size
               THEN /\ pc' = [pc EXCEPT ![n] = "waitPeers"]
                    /\ rev' = [rev EXCEPT ![n] = r]
                    /\ wnext' = [wnext EXCEPT ![n] = WatchStart(r + 1)]
                    /\ watches' = [watches EXCEPT ![n] = TRUE]
                    /\ UNCHANGED result
               ELSE /\ pc' = [pc EXCEPT ![n] = "done"]
                    /\ result' = [result EXCEPT ![n] = getInitClusterStr(members, size)]
                    /\ UNCHANGED <<rev, wnext, watches>>

\* both reads succeed
CheckClusterOK(n) ==
    /\ InCheck(n)
    /\ getClusterSize(sizeKvs).err = ErrNone
    /\ LET size    == getClusterSize(sizeKvs).size
           members == getClusterMembers(Range(getMemberKeyPrefix(clusterToken)))
       IN  AfterCheck(n, members, size, revision,
                      FindSelf(members, memberSelfKey(n), size, 0))
    /\ sleep' = [sleep EXCEPT ![n] = 0]
    /\ UNCHANGED <<registry, kind, config, puts, faults, closes, pure>>

(***************************************************************************)
(* registerSelf, one attempt.                                              *)
(***************************************************************************)
\* the registry's state after a Put of call n's member key
PutApplied(n) ==
    /\ revision' = revision + 1
    /\ events' = Append(events, PutEvent(memberSelfKey(n), config[n], revision + 1))

RegisterSelfOK(n) ==
    /\ pc[n] = "registerSelf"
    /\ PutApplied(n)
    /\ UNCHANGED nRetries
    /\ puts' = [puts EXCEPT ![n] = TRUE]
    /\ retries' = [retries EXCEPT ![n] = 0]
    /\ pc' = [pc EXCEPT ![n] = "checkCluster2"]
    /\ sleep' = [sleep EXCEPT ![n] = 0]
    /\ UNCHANGED <<sizeKvs, kind, config, cls, clusterSize, rev, wnext, result,
                   watches, checkErr, faults, closes, pure>>

\* the Put fails: it never reached the registry, or its reply was lost
RegisterSelfFail(n) ==
    /\ pc[n] = "registerSelf"
    /\ FaultsLeft
    /\ \/ UNCHANGED <<revision, events>>
       \/ PutApplied(n)
    /\ UNCHANGED nRetries
    /\ puts' = [puts EXCEPT ![n] = TRUE]
    /\ RetryOrGiveUp(n)
    /\ UNCHANGED <<sizeKvs, kind, config, cls, clusterSize, rev, wnext,
                   watches, checkErr, closes, pure>>

(***************************************************************************)
(* waitPeers and the loop around it.                                       *)
(***************************************************************************)
\* one watch response carrying the next k events; once the ledger is long
\* enough the call returns and its deferred close() ends the watch
WatchResponse(n, k) ==
    /\ pc[n] = "waitPeers"
    /\ k \in 1..(Len(events) - wnext[n])
    /\ \E members \in {AddAll(cls[n], SubSeq(events, wnext[n] + 1, wnext[n] + k))} :
           /\ cls' = [cls EXCEPT ![n] = members]
           /\ IF ClsLen(members) >= clusterSize[n]
              THEN /\ pc' = [pc EXCEPT ![n] = "done"]
                   /\ result' = [result EXCEPT ![n] =
                                    getInitClusterStr(members, clusterSize[n])]
                   /\ wnext' = [wnext EXCEPT ![n] = 0]
                   /\ rev' = [rev EXCEPT ![n] = 0]
              ELSE /\ wnext' = [wnext EXCEPT ![n] = @ + k]
                   /\ UNCHANGED <<pc, result, rev>>
    /\ UNCHANGED <<registry, kind, config, retries, sleep, clusterSize,
                   history, pure>>

\* the end of the stream returned to the caller as an error
WatchClosedReturnsError(n) ==
    /\ pc[n] = "waitPeers"
    /\ ClosesLeft
    /\ closes' = [closes EXCEPT ![n] = @ + 1]
    /\ pc' = [pc EXCEPT ![n] = "done"]
    /\ result' = [result EXCEPT ![n] = [cs |-> <<>>, err |-> ErrTransient]]
    /\ UNCHANGED <<registry, kind, config, retries, sleep, cls, clusterSize, rev, wnext,
                   puts, watches, checkErr, faults, pure>>

\* the watch channel closes: waitPeers returns, the caller's loop finds the
\* ledger short and calls waitPeers again, which watches from rev+1 again
WatchClosed(n) ==
    /\ pc[n] = "waitPeers"
    /\ ClosesLeft
    /\ closes' = [closes EXCEPT ![n] = @ + 1]
    /\ wnext' = [wnext EXCEPT ![n] = WatchStart(rev[n] + 1)]
    /\ watches' = [watches EXCEPT ![n] = TRUE]
    /\ UNCHANGED <<registry, kind, config, pc, retries, sleep, cls, clusterSize, rev,
                   result, puts, checkErr, faults, pure>>

Step(n) ==
    \/ CheckClusterFatal(n)
    \/ CheckClusterFail(n)
    \/ CheckClusterOK(n)
    \/ RegisterSelfOK(n)
    \/ RegisterSelfFail(n)
    \/ \E k \in 1..(3 * NumNodes) : WatchResponse(n, k)
    \/ WatchClosed(n)

Next == \E n \in Nodes : Step(n)

Spec == Init /\ [][Next]_vars


(***************************************************************************)
(* The ledger on its own: a clusterInfo of token clusterToken, built by    *)
(* add from arbitrary keys, values and revisions, then scanned by          *)
(* checkCluster's loop and rendered by getInitClusterStr for arbitrary     *)
(* sizes.  No call is running.                                             *)
(***************************************************************************)
\* member keys of ids 0..MaxAdds under the ledger's token, and one key of
\* another token
LedgerKeys ==
    {getMemberKey(clusterToken, IDString(i)) : i \in 0..MaxAdds}
        \cup {getMemberKey("other", IDString(1))}

\* "name=url" values, one with a malformed url, and one without '='
LedgerValues == {<<"a", "=", "h">>, <<"b", "=", "x">>, <<"z">>}

LedgerSizes == 1..(MaxAdds + 1)

LedgerInit ==
    /\ nRetries = MaxRetries
    /\ sizeKvs = <<>>
    /\ revision = InitRevision
    /\ events = <<>>
    /\ kind = [n \in Nodes |-> "get"]
    /\ config = [n \in Nodes |-> <<>>]
    /\ pc = [n \in Nodes |-> "done"]
    /\ retries = [n \in Nodes |-> 0]
    /\ sleep = [n \in Nodes |-> 0]
    /\ cls = [n \in Nodes |-> <<>>]
    /\ clusterSize = [n \in Nodes |-> 0]
    /\ rev = [n \in Nodes |-> 0]
    /\ wnext = [n \in Nodes |-> 0]
    /\ result = [n \in Nodes |-> NoResult]
    /\ puts = [n \in Nodes |-> FALSE]
    /\ watches = [n \in Nodes |-> FALSE]
    /\ checkErr = [n \in Nodes |-> "none"]
    /\ faults = 0
    /\ closes = [n \in Nodes |-> 0]
    /\ ledger = <<>>
    /\ ledgerOut = [op |-> "new"]

\* cls.add(key, value, r)
LedgerAdd(key, value, r) ==
    /\ ClsLen(ledger) < MaxAdds
    /\ ledger' = add(clusterToken, ledger, key, value, r).members
    /\ ledgerOut' = [op |-> "add", key |-> key, value |-> value, rev |-> r,
                     err |-> add(clusterToken, ledger, key, value, r).err]
    /\ UNCHANGED <<registry, locals, history>>

\* the scan of checkCluster, for a caller whose member key is self
LedgerCheck(self, size) ==
    /\ ledgerOut' = [op |-> "checkCluster", self |-> self, size |-> size,
                     err |-> FindSelf(ledger, self, size, 0)]
    /\ UNCHANGED <<registry, locals, history, ledger>>

\* cls.getInitClusterStr(size)
LedgerRender(size) ==
    /\ ledgerOut' = [op |-> "getInitClusterStr", size |-> size,
                     cs |-> getInitClusterStr(ledger, size).cs,
                     err |-> getInitClusterStr(ledger, size).err]
    /\ UNCHANGED <<registry, locals, history, ledger>>

LedgerNext ==
    \/ \E key \in LedgerKeys, value \in LedgerValues, r \in 1..MaxRev :
           LedgerAdd(key, value, r)
    \/ \E self \in LedgerKeys, size \in LedgerSizes : LedgerCheck(self, size)
    \/ \E size \in LedgerSizes : LedgerRender(size)

LedgerSpec == LedgerInit /\ [][LedgerNext]_vars

(***************************************************************************)
(* The ledger fed by replies: besides single adds, the loop of             *)
(* getClusterMembers and of waitPeers over the entries of a reply, here a  *)
(* reply of two entries whose first has a key of another token or a value  *)
(* without '='.                                                            *)
(***************************************************************************)
\* entries add rejects for their key or their value
LedgerBadEntries(r) ==
    {[Key |-> getMemberKey("other", IDString(1)), Value |-> <<"a", "=", "h">>,
      CreateRevision |-> r],
     [Key |-> getMemberKey(clusterToken, IDString(1)), Value |-> <<"z">>,
      CreateRevision |-> r]}

\* for _, kv := range resp.Kvs / for _, ev := range wresp.Events
LedgerReply(kvs) ==
    /\ ClsLen(ledger) < MaxAdds
    /\ ledger' = AddAll(ledger, kvs)
    /\ ledgerOut' = [op |-> "reply", kvs |-> kvs, before |-> ClsLen(ledger)]
    /\ UNCHANGED <<registry, locals, history>>

LedgerReplyNext ==
    \/ \E key \in LedgerKeys, value \in LedgerValues, r \in 1..MaxRev :
           LedgerAdd(key, value, r)
    \/ \E r \in 1..MaxRev : \E bad \in LedgerBadEntries(r) :
           \E key \in LedgerKeys, value \in LedgerValues :
               LedgerReply(<<bad, [Key |-> key, Value |-> value, CreateRevision |-> r]>>)

LedgerReplySpec == LedgerInit /\ [][LedgerReplyNext]_vars


(***************************************************************************)
(* Fairness for the wait loop: a watch that has events to deliver          *)
(* delivers a response (WF_vars on the delivery of a watch response).      *)
(***************************************************************************)
Deliver(n) == \E k \in 1..(3 * NumNodes) : WatchResponse(n, k)

\* the runs checked for liveness: the last call observes, the others join;
\* the size key is absent or holds 2
LiveInit ==
    /\ Init
    /\ sizeKvs \in {<<>>, <<[Value |-> <<"2">>]>>}
    /\ kind = [n \in Nodes |-> IF n < NumNodes THEN "join" ELSE "get"]

\* ENABLED <<Deliver(n)>>_vars: the watch of call n has an event to deliver
DeliverEnabled(n) == pc[n] = "waitPeers" /\ wnext[n] < Len(events)

\* invariant of LiveSpec: the state predicate is the enabledness of Deliver
DeliverEnabledIsEnabled ==
    \A n \in Nodes : DeliverEnabled(n) <=> ENABLED <<Deliver(n)>>_vars

\* WF_vars(Deliver(n)), with its ENABLED written as the state predicate above
WFDeliver(n) == ([]<>~DeliverEnabled(n)) \/ ([]<><<Deliver(n)>>_vars)

LiveSpec == LiveInit /\ [][Next]_vars /\ \A n \in Nodes : WFDeliver(n)

(***************************************************************************)
(* What the properties speak of.                                           *)
(***************************************************************************)
Min(a, b) == IF a <= b THEN a ELSE b

\* the configured cluster size, 0 when the size key is absent or bad
SizeOf == getClusterSize(sizeKvs).size

\* the member records of the registry that hold a "name=url" value
ValidRecords ==
    LET kvs == Range(getMemberKeyPrefix(clusterToken))
    IN  {kvs[i] : i \in {j \in 1..Len(kvs) :
                            \E c \in 1..Len(kvs[j].Value) : kvs[j].Value[c] = "="}}

\* a set of registry records as a sequence in ascending CreateRevision
ByRevision(S) ==
    CHOOSE sq \in [1..Cardinality(S) -> S] :
        \A i, j \in 1..Cardinality(S) :
            i < j => sq[i].CreateRevision < sq[j].CreateRevision

\* the values, blanks trimmed, of the first size valid member records of the
\* registry in ascending CreateRevision, joined with commas
InitialCluster(size) ==
    LET sq == ByRevision(ValidRecords)
    IN  Join([i \in 1..Min(size, Len(sq)) |-> TrimSpace(sq[i].Value)])

Returned(n) == pc[n] = "done"

Succeeded(n) == pc[n] = "done" /\ result[n].err = ErrNone

\* the number of comma-separated entries of a returned string
Entries(cs) == IF cs = <<>> THEN 0 ELSE Len(Split(cs))

(***************************************************************************)
(* C1. Agreement: every call that returns successfully returns the same    *)
(* string, the values (as the ledger stores them, blanks trimmed) of the   *)
(* first clusterSize valid member records of the registry in ascending     *)
(* createRevision, whether the call saw a registration in its snapshot     *)
(* read or in a later watch event.                                         *)
(***************************************************************************)
C1_Agreement ==
    \A n \in Nodes :
        Succeeded(n) =>
            /\ Cardinality(ValidRecords) >= SizeOf
            /\ result[n].cs = InitialCluster(SizeOf)
            /\ Entries(result[n].cs) = SizeOf
            /\ \A m \in Nodes : Succeeded(m) => result[m].cs = result[n].cs

\* three calls have returned the same 3-entry list, one that saw every
\* registration in its snapshot and one that saw some in watch events
C1_Witness ==
    /\ SizeOf = 3
    /\ \A n \in Nodes : Succeeded(n)
    /\ \E a, b \in Nodes : watches[a] /\ ~watches[b] /\ kind[a] = "join"

(***************************************************************************)
(* C2. Over-subscription: with cluster size 2 and three JoinCluster calls  *)
(* of distinct ids and well-formed payloads, a call whose first            *)
(* checkCluster reads the registry after the other two member keys are     *)
(* registered gets ErrFullCluster from it and returns it without writing   *)
(* its member key; and, the registry not failing, the two earlier calls    *)
(* return successfully with the same 2-entry list.                         *)
(***************************************************************************)
WellFormed(c) ==
    /\ \E i \in 1..Len(c) : c[i] = "="
    /\ NewURLsMapOK(TrimSpace(c))

OverSubscription ==
    /\ SizeOf = 2
    /\ \A n \in Nodes : kind[n] = "join" /\ WellFormed(config[n])

OthersRegistered(n) ==
    Cardinality({events[i].Key : i \in 1..Len(events)} \ {memberSelfKey(n)}) >= 2

\* call n returned ErrFullCluster and never sent a Put
TurnedAway(n) == Returned(n) /\ result[n].err = ErrFullCluster /\ ~puts[n]

C2_LateStep ==
    \A n \in Nodes :
        (/\ pc[n] = "checkCluster" /\ pc'[n] # "checkCluster"
         /\ faults' = faults
         /\ OverSubscription
         /\ OthersRegistered(n))
        => (TurnedAway(n))' /\ events' = events

\* the calls whose member keys are the first two registered
Earlier(m) ==
    \E i \in 1..Min(2, Cardinality(ValidRecords)) :
        ByRevision(ValidRecords)[i].Key = memberSelfKey(m)

C2_Earlier ==
    \A late \in Nodes :
        faults = 0 /\ TurnedAway(late) /\ OverSubscription =>
            /\ Cardinality({m \in Nodes \ {late} : Earlier(m)}) = 2
            /\ \A m \in Nodes : Earlier(m) /\ Returned(m) =>
                      /\ result[m].err = ErrNone
                      /\ Entries(result[m].cs) = 2
                      /\ result[m].cs = InitialCluster(2)

C2_OverSubscription == [][C2_LateStep /\ C2_Earlier']_vars

C2_Witness ==
    /\ OverSubscription
    /\ \E late \in Nodes :
          /\ TurnedAway(late)
          /\ \A m \in Nodes : Earlier(m) => Succeeded(m) /\ Entries(result[m].cs) = 2

(***************************************************************************)
(* C3. Liveness of the wait loop: a call in waitPeers (it passed           *)
(* checkCluster with fewer than clusterSize members) eventually returns    *)
(* the rendered list once clusterSize valid member records exist, when     *)
(* its watch keeps delivering responses.                                   *)
(***************************************************************************)
C3_WaitLoopLiveness ==
    \A n \in Nodes :
        (pc[n] = "waitPeers" /\ Cardinality(ValidRecords) >= clusterSize[n])
            ~> (Returned(n) /\ result[n].cs = InitialCluster(SizeOf))

\* a call that waited has returned the list
C3_Witness ==
    \E n \in Nodes :
        /\ Returned(n) /\ watches[n]
        /\ result[n].cs = InitialCluster(SizeOf)
        /\ Entries(result[n].cs) = SizeOf

(***************************************************************************)
(* C4. Stream termination, as claimed: when the watch stream of a call     *)
(* ends before its ledger reached clusterSize, the call returns an error.  *)
(***************************************************************************)
C4_StreamEndSurfaces ==
    [][\A n \in Nodes :
          closes'[n] # closes[n] =>
              Returned(n)' /\ result'[n].err \notin {ErrNone, "pending"}]_vars

(***************************************************************************)
(* C4, amended. When the watch stream of a call ends before its ledger     *)
(* reached clusterSize, waitPeers returns no error and keeps the ledger;   *)
(* the loop of getCluster/joinCluster calls waitPeers again, which watches *)
(* again from the snapshot revision + 1, and the call keeps waiting.  No   *)
(* call ever returns an error other than the six discovery errors.         *)
(***************************************************************************)
DiscoveryErrors ==
    {ErrNone, ErrInvalidURL, ErrBadSizeKey, ErrSizeNotFound, ErrFullCluster,
     ErrTooManyRetries}

C4_StreamEndRewatches ==
    [][\A n \in Nodes :
          /\ closes'[n] # closes[n] =>
                /\ pc[n] = "waitPeers" /\ pc'[n] = "waitPeers"
                /\ result'[n] = NoResult
                /\ cls'[n] = cls[n] /\ rev'[n] = rev[n]
                /\ Len(cls[n]) < clusterSize[n]
                /\ wnext'[n] =
                      Cardinality({i \in 1..Len(events) : events[i].ModRevision <= rev[n]})
          /\ Returned(n)' => result'[n].err \in DiscoveryErrors]_vars

\* a call whose stream ended went on waiting and returned the list
C4_Witness ==
    \E n \in Nodes : closes[n] > 0 /\ Succeeded(n) /\ Entries(result[n].cs) = SizeOf

(***************************************************************************)
(* C5. Full-cluster detection: for every size n >= 1 and every ledger,     *)
(* the scan of checkCluster gives ErrFullCluster when the ledger holds at  *)
(* least n records and the caller's member key is not among the first n    *)
(* records in createRevision order, and no error when the key is among     *)
(* the first n records or the ledger holds fewer than n records.           *)
(***************************************************************************)
\* the ledger is in ascending createRev
LedgerSorted ==
    \A i, j \in 1..Len(ledger) : i < j => ledger[i].createRev <= ledger[j].createRev

\* the keys of the first n records of the ledger
FirstKeys(n) == {ledger[i].peerRegKey : i \in 1..Min(n, Len(ledger))}

C5_FullClusterDetection ==
    /\ LedgerSorted
    /\ ledgerOut.op = "checkCluster" =>
          /\ ledgerOut.size >= 1
          /\ (Len(ledger) >= ledgerOut.size /\ ledgerOut.self \notin FirstKeys(ledgerOut.size))
                => ledgerOut.err = ErrFullCluster
          /\ (Len(ledger) < ledgerOut.size \/ ledgerOut.self \in FirstKeys(ledgerOut.size))
                => ledgerOut.err = ErrNone

\* size 3, three records of other members, the caller's key not among them
C5_Witness ==
    /\ ledgerOut.op = "checkCluster"
    /\ ledgerOut.size = 3 /\ Len(ledger) = 3
    /\ ledgerOut.self \notin FirstKeys(3)
    /\ ledgerOut.err = ErrFullCluster

(***************************************************************************)
(* C6. Fatal size errors: while the size key is absent or holds a value    *)
(* that is not a number or is <= 0, a checkCluster that reads it returns   *)
(* ErrSizeNotFound, respectively ErrBadSizeKey, at once: the call returns  *)
(* that error in the same step, with no backoff sleep and the retry        *)
(* counter as it was; no call ever sends a Put and the registry holds no   *)
(* member key.                                                             *)
(***************************************************************************)
SizeAbsent == sizeKvs = <<>>

SizeBad ==
    sizeKvs # <<>> /\ sizeKvs[1].Value \in {<<"x">>, <<"0">>, <<"-", "1">>}

ExpectedSizeErr == IF SizeAbsent THEN ErrSizeNotFound ELSE ErrBadSizeKey

C6_FatalSizeErrors ==
    [][(SizeAbsent \/ SizeBad) =>
          /\ events' = <<>> /\ revision' = InitRevision
          /\ \A n \in Nodes : ~puts'[n] /\ pc'[n] \in {"checkCluster", "done"}
          /\ faults' = faults =>
                \E n \in Nodes :
                    /\ pc[n] = "checkCluster" /\ pc'[n] = "done"
                    /\ result'[n] = [cs |-> <<>>, err |-> ExpectedSizeErr]
                    /\ retries'[n] = retries[n]
                    /\ sleep'[n] = 0
                    /\ \A m \in Nodes \ {n} : pc'[m] = pc[m] /\ result'[m] = result[m]
          /\ \A n \in Nodes :
                Returned(n)' => result'[n].err \in {ExpectedSizeErr, ErrTooManyRetries}]_vars

\* a JoinCluster call read a bad size key on its second attempt and returned
\* ErrBadSizeKey, its retry counter still 1 and no Put sent
C6_Witness ==
    \E n \in Nodes :
        /\ kind[n] = "join" /\ Returned(n)
        /\ result[n].err = ErrBadSizeKey
        /\ retries[n] = 1
        /\ ~puts[n] /\ events = <<>>

(***************************************************************************)
(* C7. Retry ceiling: a transient failure of a retried operation (size     *)
(* read, member read, Put of the member key) of a call whose retry counter *)
(* is below nRetries is followed by a backoff sleep and another attempt,   *)
(* the counter one higher and nothing returned; at nRetries the call       *)
(* returns ErrTooManyRetries; and ErrTooManyRetries is returned in no      *)
(* other way.                                                              *)
(***************************************************************************)
C7_RetryCeiling ==
    [][/\ faults' # faults =>
            \E n \in Nodes :
                /\ pc[n] \in {"checkCluster", "checkCluster2", "registerSelf"}
                /\ IF retries[n] < nRetries
                   THEN /\ retries'[n] = retries[n] + 1
                        /\ sleep'[n] > 0
                        /\ pc'[n] = pc[n]
                        /\ result'[n] = NoResult
                   ELSE /\ retries[n] = nRetries
                        /\ Returned(n)'
                        /\ result'[n] = [cs |-> <<>>, err |-> ErrTooManyRetries]
                /\ \A m \in Nodes \ {n} :
                      retries'[m] = retries[m] /\ pc'[m] = pc[m] /\ result'[m] = result[m]
       /\ \A n \in Nodes :
            /\ retries'[n] <= nRetries
            /\ (result'[n].err = ErrTooManyRetries /\ result[n].err # ErrTooManyRetries)
                  => faults' # faults /\ retries[n] = nRetries]_vars

\* a call whose Put kept failing gave up, its counter at the ceiling
C7_Witness ==
    \E n \in Nodes :
        /\ Returned(n) /\ result[n].err = ErrTooManyRetries
        /\ retries[n] = nRetries
        /\ puts[n]

(***************************************************************************)
(* C8. GetCluster is a pure observer: a GetCluster call never sends a Put  *)
(* and never reaches registerSelf; every step it takes (a read, a retry,   *)
(* a watch response, a re-watch) leaves the registry as it was, and no     *)
(* record of GetCluster's member id 0 is ever in the registry.             *)
(***************************************************************************)
\* call n takes a step
Moves(n) ==
    \/ pc'[n] # pc[n] \/ retries'[n] # retries[n] \/ wnext'[n] # wnext[n]
    \/ closes'[n] # closes[n] \/ cls'[n] # cls[n] \/ result'[n] # result[n]
    \/ puts'[n] # puts[n] \/ watches'[n] # watches[n]

C8_PureObserver ==
    [][\A n \in Nodes :
          kind[n] = "get" =>
              /\ ~puts'[n]
              /\ pc'[n] # "registerSelf"
              /\ Moves(n) => events' = events /\ revision' = revision /\ sizeKvs' = sizeKvs
              /\ \A i \in 1..Len(events') :
                    events'[i].Key # getMemberKey(clusterToken, IDString(0))]_vars

\* a GetCluster call retried a read, waited on a watch and returned the list
C8_Witness ==
    \E n \in Nodes :
        /\ kind[n] = "get" /\ Succeeded(n)
        /\ watches[n] /\ faults > 0
        /\ Entries(result[n].cs) = SizeOf
        /\ ~puts[n]

(***************************************************************************)
(* C9. GetCluster on a full cluster: when the checkCluster of a GetCluster *)
(* call reports ErrFullCluster the call returns in that same step the      *)
(* initial cluster string capped at clusterSize, without opening a watch;  *)
(* and no GetCluster call ever returns ErrFullCluster.                     *)
(***************************************************************************)
C9_GetClusterOnFull ==
    [][\A n \in Nodes :
          kind[n] = "get" =>
              /\ Returned(n)' => result'[n].err # ErrFullCluster
              /\ (pc[n] = "checkCluster" /\ checkErr'[n] = ErrFullCluster) =>
                    /\ Returned(n)'
                    /\ ~watches'[n]
                    /\ result'[n].err \in {ErrNone, ErrInvalidURL}
                    /\ events' = events /\ sizeKvs' = sizeKvs
                    /\ result'[n].cs = InitialCluster(SizeOf)
                    /\ Entries(result'[n].cs) = SizeOf]_vars

\* a GetCluster call found the cluster full and returned the list, no watch
\* opened
C9_Witness ==
    \E n \in Nodes :
        /\ kind[n] = "get" /\ Returned(n)
        /\ checkErr[n] = ErrFullCluster
        /\ result[n].err = ErrNone
        /\ Entries(result[n].cs) = SizeOf
        /\ ~watches[n]

(***************************************************************************)
(* C10. Capping: on a ledger of m records, getInitClusterStr(n) returns    *)
(* the values of the first Min(m, n) records of the ledger, which is in    *)
(* ascending createRevision, joined with commas: the n records of lowest   *)
(* revision when m > n, all m records when m <= n.                         *)
(***************************************************************************)
C10_Capping ==
    /\ LedgerSorted
    /\ ledgerOut.op = "getInitClusterStr" =>
          LET k == Min(Len(ledger), ledgerOut.size)
          IN  /\ ledgerOut.cs = Join([i \in 1..k |-> ledger[i].peerURLsMap])
              /\ Entries(ledgerOut.cs) = k
              /\ \A i \in 1..k : Split(ledgerOut.cs)[i] = ledger[i].peerURLsMap
              /\ \A i \in 1..k, j \in (k + 1)..Len(ledger) :
                    ledger[i].createRev <= ledger[j].createRev

\* three records of different revisions rendered for size 2
C10_Witness ==
    /\ ledgerOut.op = "getInitClusterStr"
    /\ Len(ledger) = 3 /\ ledgerOut.size = 2
    /\ ledger[1].createRev < ledger[3].createRev
    /\ Entries(ledgerOut.cs) = 2

(***************************************************************************)
(* C11, as claimed.  When the caller's member key is anywhere in the       *)
(* ledger, the scan of checkCluster never gives ErrFullCluster, whatever   *)
(* the number of records and the position of the key.                      *)
(***************************************************************************)
\* the keys of every record of the ledger
LedgerKeySet == {ledger[i].peerRegKey : i \in 1..Len(ledger)}

C11_NeverFullWhenPresent ==
    (ledgerOut.op = "checkCluster" /\ ledgerOut.self \in LedgerKeySet)
        => ledgerOut.err # ErrFullCluster

(***************************************************************************)
(* C11, amended.  When the caller's member key is in the ledger, the scan  *)
(* of checkCluster gives ErrFullCluster exactly when the key sits after    *)
(* the first clusterSize records, and no error when it is among the first  *)
(* clusterSize records.                                                    *)
(***************************************************************************)
\* the position of a key in the ledger
PositionOf(key) == CHOOSE i \in 1..Len(ledger) : ledger[i].peerRegKey = key

C11_FullWhenPresentBeyondSize ==
    (ledgerOut.op = "checkCluster" /\ ledgerOut.self \in LedgerKeySet)
        => (ledgerOut.err = IF PositionOf(ledgerOut.self) > ledgerOut.size
                            THEN ErrFullCluster ELSE ErrNone)

\* the caller's key is the third record of the ledger and the size is 2
C11_Witness ==
    /\ ledgerOut.op = "checkCluster"
    /\ Len(ledger) = 3 /\ ledgerOut.size = 2
    /\ ledger[3].peerRegKey = ledgerOut.self
    /\ ledgerOut.err = ErrFullCluster

(***************************************************************************)
(* The retry counter on its own: the retried operation of each call fails  *)
(* or succeeds, any number of times in a row, under a ceiling nRetries of  *)
(* MaxBackoffs.  sleep[n] is the last backoff slept in the current run of  *)
(* consecutive failures of call n.                                         *)
(***************************************************************************)
BackoffInit ==
    /\ nRetries = MaxBackoffs
    /\ sizeKvs = <<[Value |-> <<"2">>]>>
    /\ revision = InitRevision
    /\ events = <<>>
    /\ kind = [n \in Nodes |-> "get"]
    /\ config = [n \in Nodes |-> <<>>]
    /\ pc = [n \in Nodes |-> "checkCluster"]
    /\ retries = [n \in Nodes |-> 0]
    /\ sleep = [n \in Nodes |-> 0]
    /\ cls = [n \in Nodes |-> <<>>]
    /\ clusterSize = [n \in Nodes |-> 0]
    /\ rev = [n \in Nodes |-> 0]
    /\ wnext = [n \in Nodes |-> 0]
    /\ result = [n \in Nodes |-> NoResult]
    /\ puts = [n \in Nodes |-> FALSE]
    /\ watches = [n \in Nodes |-> FALSE]
    /\ checkErr = [n \in Nodes |-> "none"]
    /\ faults = 0
    /\ closes = [n \in Nodes |-> 0]
    /\ ledger = <<>>
    /\ ledgerOut = [op |-> "new"]

\* the retried operation fails: checkClusterRetry / registerSelfRetry
OperationFails(n) ==
    /\ pc[n] = "checkCluster"
    /\ faults < MaxBackoffFaults
    /\ RetryOrGiveUp(n)
    /\ UNCHANGED <<registry, kind, config, cls, clusterSize, rev, wnext,
                   puts, watches, checkErr, closes, pure>>

\* the retried operation succeeds after failures: d.retries = 0
OperationSucceeds(n) ==
    /\ pc[n] = "checkCluster"
    /\ retries[n] > 0
    /\ retries' = [retries EXCEPT ![n] = 0]
    /\ sleep' = [sleep EXCEPT ![n] = 0]
    /\ UNCHANGED <<registry, kind, config, pc, cls, clusterSize, rev, wnext, result,
                   history, pure>>

BackoffNext == \E n \in Nodes : OperationFails(n) \/ OperationSucceeds(n)

BackoffSpec == BackoffInit /\ [][BackoffNext]_vars

(***************************************************************************)
(* C12. Backoff schedule: over a run of consecutive failures of a retried  *)
(* operation the k-th failure sleeps 2^min(k, 8) seconds, k being the      *)
(* retry counter once the failure is counted: 2, 4, ..., 256 seconds, each *)
(* sleep at least the one before, doubling up to the ceiling of 256        *)
(* seconds and 256 seconds for every further failure.                      *)
(***************************************************************************)
\* 2^1 .. 2^8
BackoffSeconds == <<2, 4, 8, 16, 32, 64, 128, 256>>

C12_BackoffSchedule ==
    [][\A n \in Nodes :
          retries'[n] = retries[n] + 1 =>
              /\ sleep'[n] = BackoffSeconds[Min(retries'[n], 8)]
              /\ sleep'[n] >= sleep[n]
              /\ sleep'[n] <= 256
              /\ (retries[n] >= 1 /\ retries[n] < 8) => sleep'[n] = 2 * sleep[n]
              /\ retries[n] >= 8 => sleep'[n] = 256 /\ sleep[n] = 256]_vars

\* the tenth failure in a row has slept 256 seconds
C12_Witness ==
    \E n \in Nodes : retries[n] = 10 /\ sleep[n] = 256

(***************************************************************************)
(* C13, as claimed.  A retried operation that succeeds (checkCluster       *)
(* reading size and members, registerSelf's Put) leaves the retry counter  *)
(* at zero, and the failure that follows sleeps the base duration of 1     *)
(* second.                                                                 *)
(***************************************************************************)
\* call n completes a checkCluster whose two reads succeeded
SucceedsCheck(n) ==
    /\ InCheck(n) /\ pc'[n] # pc[n]
    /\ faults' = faults
    /\ checkErr'[n] \in {ErrNone, ErrFullCluster}

\* the Put of call n succeeds
SucceedsPut(n) == pc[n] = "registerSelf" /\ pc'[n] = "checkCluster2"

\* a retried operation of call n fails with the counter at zero
FailsAtZero(n) == faults' # faults /\ retries[n] = 0 /\ retries'[n] = 1

C13_ResetThenOneSecond ==
    [][\A n \in Nodes :
          /\ (SucceedsCheck(n) \/ SucceedsPut(n)) => retries'[n] = 0
          /\ FailsAtZero(n) => sleep'[n] = 1]_vars

(***************************************************************************)
(* C13, amended.  A retried operation that succeeds leaves the retry       *)
(* counter at zero, and the failure that follows sleeps 2 seconds: the     *)
(* counter is incremented before the duration 2^counter is computed.       *)
(***************************************************************************)
C13_ResetThenTwoSeconds ==
    [][\A n \in Nodes :
          /\ (SucceedsCheck(n) \/ SucceedsPut(n)) => retries'[n] = 0
          /\ FailsAtZero(n) => sleep'[n] = 2]_vars

\* a call failed, succeeded, and failed again in its second checkCluster:
\* its counter is 1 and it sleeps 2 seconds
C13_Witness ==
    \E n \in Nodes :
        /\ pc[n] = "checkCluster2"
        /\ faults = 2 /\ retries[n] = 1 /\ sleep[n] = 2
        /\ \A m \in Nodes \ {n} : pc[m] = "checkCluster" /\ retries[m] = 0

(***************************************************************************)
(* C14. Uniqueness: after any sequence of add calls no two records of the  *)
(* ledger share a key; an add whose key is already in the ledger returns   *)
(* an error and leaves the ledger (size, contents, order) as it was, even  *)
(* with another value or revision; an add that succeeds is the first of    *)
(* its key and makes the ledger one record longer.                         *)
(***************************************************************************)
NoSharedKey ==
    \A i, j \in 1..Len(ledger) : i # j => ledger[i].peerRegKey # ledger[j].peerRegKey

C14_Uniqueness ==
    [][/\ NoSharedKey'
       /\ (ledgerOut'.op = "add" /\ ledgerOut'.key \in LedgerKeySet) =>
              ledgerOut'.err # ErrNone /\ ledger' = ledger
       /\ (ledgerOut'.op = "add" /\ ledgerOut'.err = ErrNone) =>
              /\ ledgerOut'.key \notin LedgerKeySet
              /\ Len(ledger') = Len(ledger) + 1]_vars

\* an add of a key already in the ledger, with another value and another
\* revision, was rejected as a duplicate
C14_Witness ==
    /\ ledgerOut.op = "add"
    /\ ledgerOut.err = "found duplicate peer from discovery service"
    /\ \E i \in 1..Len(ledger) :
          /\ ledger[i].peerRegKey = ledgerOut.key
          /\ ledger[i].peerURLsMap # ledgerOut.value
          /\ ledger[i].createRev # ledgerOut.rev

(***************************************************************************)
(* C15, as claimed.  For the records of any ledger (valid, of distinct     *)
(* keys), passing them to add in any order gives a ledger in ascending     *)
(* createRevision and the same rendered string for every size.             *)
(***************************************************************************)
\* the permutations of 1..n
Perms(n) == {p \in [1..n -> 1..n] : \A i, j \in 1..n : i # j => p[i] # p[j]}

\* a ledger fed with records, one add each
RECURSIVE AddRecords(_, _)
AddRecords(members, recs) ==
    IF recs = <<>> THEN members
    ELSE AddRecords(add(clusterToken, members, Head(recs).peerRegKey,
                        Head(recs).peerURLsMap, Head(recs).createRev).members,
                    Tail(recs))

\* the ledger built from the records of the ledger, passed in the order p
Reinsert(p) == AddRecords(<<>>, [i \in 1..Len(ledger) |-> ledger[p[i]]])

C15_AnyOrderSameString ==
    /\ LedgerSorted
    /\ \A p \in Perms(Len(ledger)) : \A size \in LedgerSizes :
          getInitClusterStr(Reinsert(p), size).cs = getInitClusterStr(ledger, size).cs

(***************************************************************************)
(* C15, amended.  After every add the ledger is in ascending               *)
(* createRevision.  For records of pairwise distinct createRevisions every *)
(* order of insertion gives the same ledger, hence the same rendered       *)
(* string.  A record added with a createRevision equal to that of records  *)
(* already in the ledger is placed after them, the records already there   *)
(* keeping their order: records of equal createRevision stay in insertion  *)
(* order, so their order in the rendered string depends on the order of    *)
(* insertion.                                                              *)
(***************************************************************************)
DistinctRevisions ==
    \A i, j \in 1..Len(ledger) : i # j => ledger[i].createRev # ledger[j].createRev

\* the number of records of the ledger of createRev at most r
UpTo(r) == Cardinality({i \in 1..Len(ledger) : ledger[i].createRev <= r})

C15_SortedAndStable ==
    [][/\ LedgerSorted'
       /\ DistinctRevisions' => \A p \in Perms(Len(ledger')) : Reinsert(p)' = ledger'
       /\ (ledgerOut'.op = "add" /\ ledgerOut'.err = ErrNone) =>
              ledger' = SubSeq(ledger, 1, UpTo(ledgerOut'.rev))
                          \o <<[peerRegKey |-> ledgerOut'.key,
                                peerURLsMap |-> ledgerOut'.value,
                                createRev |-> ledgerOut'.rev]>>
                          \o SubSeq(ledger, UpTo(ledgerOut'.rev) + 1, Len(ledger))]_vars

\* a record added with the revision of a record already there sits after it
\* and before a record of a higher revision
C15_Witness ==
    /\ ledgerOut.op = "add" /\ ledgerOut.err = ErrNone
    /\ Len(ledger) = 3
    /\ ledger[1].createRev = ledgerOut.rev
    /\ ledger[2].createRev = ledgerOut.rev /\ ledger[2].peerRegKey = ledgerOut.key
    /\ ledger[3].createRev > ledgerOut.rev

(***************************************************************************)
(* C16. Schema rejection: an add whose key is not under the ledger's       *)
(* member prefix, or whose value holds no '=', returns an error and        *)
(* leaves the ledger as it was, so no such record is ever in the ledger;   *)
(* in the loop over the entries of a reply such an entry is skipped and    *)
(* the entries after it are still added.                                   *)
(***************************************************************************)
\* the member keys of the ledger's own token
OwnKeys == {getMemberKey(clusterToken, IDString(i)) : i \in 0..MaxAdds}

NoEquals(value) == \A i \in 1..Len(value) : value[i] # "="

\* the keys of the entries of a reply that are well-formed
GoodKeys(kvs) ==
    {kvs[i].Key : i \in {j \in 1..Len(kvs) :
                            kvs[j].Key \in OwnKeys /\ ~NoEquals(kvs[j].Value)}}

C16_SchemaRejection ==
    [][/\ \A i \in 1..Len(ledger') :
             ledger'[i].peerRegKey \in OwnKeys /\ ~NoEquals(ledger'[i].peerURLsMap)
       /\ (/\ ledgerOut'.op = "add"
           /\ (ledgerOut'.key \notin OwnKeys \/ NoEquals(ledgerOut'.value))) =>
              ledgerOut'.err # ErrNone /\ ledger' = ledger
       /\ ledgerOut'.op = "reply" =>
              /\ {ledger'[i].peerRegKey : i \in 1..Len(ledger')}
                    = LedgerKeySet \cup GoodKeys(ledgerOut'.kvs)
              /\ \A i \in 1..Len(ledger) :
                    \E j \in 1..Len(ledger') : ledger'[j] = ledger[i]]_vars

\* a reply whose first entry was rejected and whose second entry was added
C16_Witness ==
    /\ ledgerOut.op = "reply"
    /\ GoodKeys(<<ledgerOut.kvs[1]>>) = {}
    /\ Len(ledger) = ledgerOut.before + 1
    /\ ledgerOut.kvs[2].Key \in LedgerKeySet

(***************************************************************************)
(* C17. Bounded admission: when every JoinCluster call has a well-formed   *)
(* payload (ids are distinct), at most clusterSize of them return          *)
(* successfully, each of them registered among the first clusterSize       *)
(* member records; and a second checkCluster that completes for a call     *)
(* whose key is not among the first clusterSize records by createRevision  *)
(* returns ErrFullCluster to the caller.                                   *)
(***************************************************************************)
AllValid == \A n \in Nodes : kind[n] = "join" => WellFormed(config[n])

\* the member key of call m is among the first clusterSize valid records
AmongFirst(m) ==
    \E i \in 1..Min(SizeOf, Cardinality(ValidRecords)) :
        ByRevision(ValidRecords)[i].Key = memberSelfKey(m)

Admitted == {n \in Nodes : kind[n] = "join" /\ Succeeded(n)}

C17_BoundedAdmission ==
    [][AllValid =>
          /\ (Cardinality(Admitted) <= SizeOf)'
          /\ \A n \in Nodes :
                /\ (kind[n] = "join" /\ ~Succeeded(n) /\ Succeeded(n)') =>
                       events' = events /\ AmongFirst(n)
                /\ (/\ kind[n] = "join"
                    /\ pc[n] = "checkCluster2" /\ pc'[n] # pc[n]
                    /\ faults' = faults
                    /\ ~AmongFirst(n)) =>
                       Returned(n)' /\ result'[n].err = ErrFullCluster]_vars

\* size 2, three joiners: two returned the list, the third registered and
\* was turned away by its second checkCluster
C17_Witness ==
    /\ AllValid /\ SizeOf = 2
    /\ Cardinality(Admitted) = 2
    /\ \E n \in Nodes :
          /\ kind[n] = "join" /\ Returned(n) /\ puts[n]
          /\ result[n].err = ErrFullCluster
          /\ memberSelfKey(n) \in {events[i].Key : i \in 1..Len(events)}

(***************************************************************************)
(* C18. Self-inclusion: when a JoinCluster call whose payload holds an '=' *)
(* returns successfully, its member key is among the first clusterSize     *)
(* records by createRevision and the returned list holds its payload       *)
(* (blanks trimmed, as the ledger stores it).                              *)
(***************************************************************************)
HasEquals(c) == \E i \in 1..Len(c) : c[i] = "="

\* the returned string holds the payload as one of its entries
Lists(cs, payload) ==
    \E i \in 1..Entries(cs) : Split(cs)[i] = TrimSpace(payload)

C18_SelfInclusion ==
    \A n \in Nodes :
        (kind[n] = "join" /\ Succeeded(n) /\ HasEquals(config[n])) =>
            /\ Lists(result[n].cs, config[n])
            /\ AmongFirst(n)

\* size 2, three joiners: a joiner returned a list that holds its payload
\* while a third member key is registered
C18_Witness ==
    \E n \in Nodes :
        /\ kind[n] = "join" /\ Succeeded(n) /\ HasEquals(config[n])
        /\ Lists(result[n].cs, config[n])
        /\ SizeOf = 2
        /\ Cardinality({events[i].Key : i \in 1..Len(events)}) = 3

(***************************************************************************)
(* C19. Exact size on return: every list returned by GetCluster or         *)
(* JoinCluster, after waiting as well as on GetCluster's ErrFullCluster    *)
(* path, has exactly clusterSize entries, and the ledger of the call holds *)
(* at least clusterSize records when it is returned; a call that returns   *)
(* no error, or ErrInvalidURL, returns such a list.                        *)
(***************************************************************************)
C19_ExactSize ==
    \A n \in Nodes :
        Returned(n) =>
            /\ result[n].err \in {ErrNone, ErrInvalidURL} => result[n].cs # <<>>
            /\ result[n].cs # <<>> =>
                  /\ clusterSize[n] = SizeOf /\ SizeOf >= 1
                  /\ Entries(result[n].cs) = clusterSize[n]
                  /\ ClsLen(cls[n]) >= clusterSize[n]

\* size 2: a GetCluster call returned 2 entries on its ErrFullCluster path
\* and a JoinCluster call returned 2 entries after waiting
C19_Witness ==
    /\ SizeOf = 2
    /\ \E g \in Nodes :
          /\ kind[g] = "get" /\ Returned(g) /\ checkErr[g] = ErrFullCluster
          /\ Entries(result[g].cs) = 2
    /\ \E j \in Nodes :
          /\ kind[j] = "join" /\ Returned(j) /\ watches[j]
          /\ Entries(result[j].cs) = 2

(***************************************************************************)
(* C20. Snapshot-plus-watch consistency: while a call is in the wait loop  *)
(* its ledger is a prefix, in createRevision order, of the valid member    *)
(* records of the registry: it holds every valid record created up to the  *)
(* snapshot revision and every valid record among the events its watch     *)
(* has delivered, each once; after waitPeers is entered again from the     *)
(* same revision the replayed events add nothing, and the ledger is never  *)
(* longer than the number of valid member keys of the registry.            *)
(***************************************************************************)
\* a registry record as the ledger stores it
AsMember(kv) ==
    [peerRegKey |-> kv.Key, peerURLsMap |-> TrimSpace(kv.Value),
     createRev |-> kv.CreateRevision]

C20_SnapshotPlusWatch ==
    \A n \in Nodes :
        pc[n] = "waitPeers" =>
            /\ ClsLen(cls[n]) <= Cardinality(ValidRecords)
            /\ \A i \in 1..ClsLen(cls[n]) :
                  cls[n][i] = AsMember(ByRevision(ValidRecords)[i])
            /\ \A kv \in ValidRecords :
                  kv.CreateRevision <= rev[n] => exist(cls[n], kv.Key)
            /\ \A i \in 1..wnext[n] :
                  HasEquals(events[i].Value) => exist(cls[n], events[i].Key)
            /\ \A i, j \in 1..ClsLen(cls[n]) :
                  i # j => cls[n][i].peerRegKey # cls[n][j].peerRegKey

\* a call whose watch delivered a record, then ended, is in waitPeers again
\* and watches from the snapshot revision + 1 once more
C20_Witness ==
    \E n \in Nodes :
        /\ pc[n] = "waitPeers" /\ closes[n] = 1
        /\ \E i \in 1..ClsLen(cls[n]) : cls[n][i].createRev > rev[n]
        /\ wnext[n] < Len(events)
        /\ \A i \in 1..Len(events) : events[i].ModRevision > rev[n] => i > wnext[n]

=============================================================================
